---- MODULE Spec2Model ----
(***************************************************************************)
(* Model of the `instrument` attribute macro (macros/src/lib.rs) and of    *)
(* the wrapper functions it generates.                                     *)
(*                                                                         *)
(* Build time: the attribute's argument tokens are parsed by               *)
(* InstrumentArgs::parse, instrument_inner emits the replacement           *)
(* declaration as a token stream, and the compiler reads that stream back, *)
(* resolving its imports against the facade crate (src/lib.rs).            *)
(* Run time: calls of a wrapper the compiler accepted execute the          *)
(* generated statements one at a time, interleaved with each other and     *)
(* with the passing of time.                                               *)
(*                                                                         *)
(* Strings are sequences of chunks (TLA+ strings); the path separator "::" *)
(* is always a chunk of its own, so that str_replace!(.., "::", "_") is a  *)
(* map over the chunks and Flatten gives the string the program sees.      *)
(* An Option<T> is a sequence of length at most one.                       *)
(***************************************************************************)
EXTENDS Integers, Sequences, FiniteSets, TLC

VARIABLES
    args,      \* the attribute's argument tokens, as written in the source
    item,      \* the annotated function (FunctionDescriptor)
    facade,    \* the crate the build links as ::metrics_attributes
    phase,     \* "source" -> "expanded" -> "ready" | "rejected"
    output,    \* what `instrument` handed back to the compiler
    program,   \* the wrapper's statements, once the compiler accepted them
    calls,     \* one record per invocation of the wrapper
    clock,     \* the monotonic clock read by Instant::now() and elapsed()
    sink       \* the metrics backend: the emissions in the order received

vars == <<args, item, facade, phase, output, program, calls, clock, sink>>

-----------------------------------------------------------------------------
(* Bounds *)

MaxArgs == 3        \* longest argument list, in arguments
MaxCalls == 2       \* invocations of the wrapper
MaxClock == 2       \* last clock value
MaxInput == 1       \* inputs are -MaxInput .. MaxInput

-----------------------------------------------------------------------------
(* Strings *)

RECURSIVE Flatten(_)
Flatten(chunks) ==
    IF chunks = <<>> THEN "" ELSE Head(chunks) \o Flatten(Tail(chunks))

\* const_format::str_replace!(input, pattern, replacement)
str_replace(input, pattern, replacement) ==
    [i \in 1..Len(input) |->
        IF input[i] = pattern THEN replacement ELSE input[i]]

\* format!/formatcp! with a format string "{}<suffix>"
format(suffix, value) == value \o suffix

RECURSIVE JoinPath(_)
\* module_path!(): the enclosing modules, separated by "::"
JoinPath(segments) ==
    IF Len(segments) <= 1 THEN segments
    ELSE <<Head(segments), "::">> \o JoinPath(Tail(segments))

-----------------------------------------------------------------------------
(* The attribute's arguments: InstrumentArgs::parse and StrArg::parse *)

Tok(t) == [t |-> t, v |-> <<>>]
LitStr(v) == [t |-> "lit", v |-> v]

KwName == Tok("name")
Eq == Tok("=")
Comma == Tok(",")
OtherIdent == Tok("ident")

LitValues == { <<"req_latency">>, <<"a", "::", "b">> }

ArgTokens == {KwName, Eq, Comma, OtherIdent} \cup { LitStr(v) : v \in LitValues }

\* what may stand as one argument: a keyed argument, or a single token
NameArg(v) == <<KwName, Eq, LitStr(v)>>
OtherArg(v) == <<OtherIdent, Eq, LitStr(v)>>

ArgForms ==
    { NameArg(v) : v \in LitValues } \cup { OtherArg(<<"req_latency">>) }
    \cup { <<tok>> : tok \in ArgTokens }

RECURSIVE Concat(_)
Concat(seqs) == IF seqs = <<>> THEN <<>> ELSE Head(seqs) \o Concat(Tail(seqs))

ArgLists == { Concat(fs) : fs \in UNION { [1..n -> ArgForms] : n \in 0..MaxArgs } }

DuplicateArgument == "expected only a single name argument"
UnrecognizedArgument == "expected name"
SyntaxError == "unexpected token"

ParseOk(name, rest) == [kind |-> "ok", name |-> name, rest |-> rest, msg |-> ""]
ParseErr(msg) == [kind |-> "err", name |-> <<>>, rest |-> <<>>, msg |-> msg]

\* StrArg::<kw::name>::parse: the keyword, `=`, a string literal
StrArg_parse(input) ==
    IF input = <<>> \/ Head(input) # KwName THEN ParseErr(SyntaxError)
    ELSE IF Len(input) < 2 \/ input[2] # Eq THEN ParseErr(SyntaxError)
    ELSE IF Len(input) < 3 \/ input[3].t # "lit" THEN ParseErr(SyntaxError)
    ELSE ParseOk(<<input[3].v>>, SubSeq(input, 4, Len(input)))

PeekName(input) == Head(input) = KwName

RECURSIVE ParseLoopLastWins(_, _)
\* variant: a repeated `name` is accepted and the last one wins
ParseLoopLastWins(input, name) ==
    IF input = <<>> THEN ParseOk(name, <<>>)
    ELSE IF PeekName(input)
         THEN LET r == StrArg_parse(input)
              IN  IF r.kind = "err" THEN r ELSE ParseLoopLastWins(r.rest, r.name)
         ELSE ParseErr(UnrecognizedArgument)

RECURSIVE ParseLoop(_, _)
\* the `while !input.is_empty()` loop, with args.name so far
ParseLoop(input, name) ==
    IF input = <<>> THEN ParseOk(name, <<>>)
    ELSE IF PeekName(input)
         THEN IF name # <<>>
              THEN ParseErr(DuplicateArgument)
              ELSE LET r == StrArg_parse(input)
                   IN  IF r.kind = "err" THEN r ELSE ParseLoop(r.rest, r.name)
         ELSE ParseErr(UnrecognizedArgument)

InstrumentArgs_parse(input) == ParseLoop(input, <<>>)

-----------------------------------------------------------------------------
(* The annotated function *)

Blocks == {"add", "check_positive", "check_early", "make_job"}

\* the declared return type of each body
RetType(block) ==
    CASE block = "add" -> "i32"
      [] block = "check_positive" -> "Result"
      [] block = "check_early" -> "Result"
      [] block = "make_job" -> "Job"

Sig(block, isAsync) ==
    [name |-> block, params |-> <<"num">>, asyncness |-> isAsync,
     ret |-> RetType(block)]

Visibilities == {"pub", ""}
ModulePaths == { <<"svc">>, <<"app", "svc">> }

\* the attributes written on the function besides #[instrument]
AttrLists == { <<>>, <<"doc", "inline">> }

\* syn::ItemFn { attrs, vis, sig, block }, and the module it is declared in
Items ==
    { [attrs |-> at, vis |-> v, sig |-> Sig(b, a), block |-> b, path |-> p] :
        at \in AttrLists, v \in Visibilities, b \in Blocks, a \in BOOLEAN,
        p \in ModulePaths }

\* the path of the module the function is declared in, as module_path!() gives it
module_path(it) == JoinPath(it.path)

-----------------------------------------------------------------------------
(* instrument_inner: the token stream of the replacement declaration *)

T(t, a) == [t |-> t, a |-> a]
Semi == T(";", <<>>)

\* `.await` after the block when the function is async, nothing otherwise
maybe_await(sig) ==
    IF sig.asyncness THEN <<T(".await", <<>>)>> ELSE <<>>

\* the statements that bind histogram_name and counter_name
metric_names(name) ==
    IF name # <<>>
    THEN LET base_name == Flatten(name[1])
             counter_name == format("_total", base_name)
             histogram_name == format("_duration_seconds", base_name)
         IN  << T("let", <<"histogram_name">>), T("lit", <<histogram_name>>), Semi,
                T("let", <<"counter_name">>), T("lit", <<counter_name>>) >>
    ELSE << T("const", <<"BASE_NAME">>),
                T("str_replace!", <<"module_path!()", "::", "_">>), Semi,
            T("let", <<"histogram_name">>),
                T("formatcp!", <<"_duration_seconds", "BASE_NAME">>), Semi,
            T("let", <<"counter_name">>),
                T("formatcp!", <<"_total", "BASE_NAME">>), Semi >>

\* variant: the duration is read before the labels are extracted
track_metrics_duration_first(name) ==
    << T("{", <<>>),
       T("use", <<"GetLabels", "GetLabelsFromResult", "str_replace", "formatcp">>), Semi,
       T("let", <<"duration">>), T("elapsed", <<"__metrics_attributes_start">>), Semi,
       T("let", <<"labels">>), T("get_labels", <<"ret">>), Semi >>
    \o metric_names(name) \o
    << T("histogram!", <<"histogram_name", "duration", "labels">>), Semi,
       T("increment_counter!", <<"counter_name", "labels">>), Semi,
       T("}", <<>>) >>

track_metrics(name) ==
    << T("{", <<>>),
       T("use", <<"GetLabels", "GetLabelsFromResult", "str_replace", "formatcp">>), Semi,
       T("let", <<"labels">>), T("get_labels", <<"ret">>), Semi,
       T("let", <<"duration">>), T("elapsed", <<"__metrics_attributes_start">>), Semi >>
    \o metric_names(name) \o
    << T("histogram!", <<"histogram_name", "duration", "labels">>), Semi,
       T("increment_counter!", <<"counter_name", "labels">>), Semi,
       T("}", <<>>) >>

\* the body between the braces of the replacement declaration
generated_body(a, sig, block) ==
    << T("let", <<"__metrics_attributes_start">>), T("now", <<>>), Semi,
       T("let", <<"ret">>), T("block", <<block>>) >>
    \o maybe_await(sig) \o <<Semi>>
    \o track_metrics(a.name)
    \o << T("var", <<"ret">>) >>

\* item.attrs is not read: the replacement declaration is `#vis #sig { .. }`
\* and carries no attribute
instrument_inner(a, it) ==
    LET sig == it.sig
        block == it.block
        vis == it.vis
    IN  [attrs |-> <<>>, vis |-> vis, sig |-> sig,
         body |-> generated_body(a, sig, block)]

\* the attribute macro: a parse failure of the arguments becomes a compile
\* error and nothing else is emitted
instrument(argToks, it) ==
    LET a == InstrumentArgs_parse(argToks)
    IN  IF a.kind = "err"
        THEN [kind |-> "compile_error", msg |-> a.msg, decl |-> <<>>]
        ELSE [kind |-> "decl", msg |-> "", decl |-> <<instrument_inner(a, it)>>]

-----------------------------------------------------------------------------
(* The generated declaration as the compiler reads it back.  The token      *)
(* stream is cut into statements at each `;` (the braces of the inner block *)
(* only delimit a scope); a statement is a binding of one expression, a    *)
(* `use`, or a macro call; the last piece is the tail expression.  `.await` *)
(* needs an operand that is a future whose output has the type the binding *)
(* is used at.  Constant items and formatcp! are evaluated here.  The      *)
(* `use` of the inner block is resolved against the facade crate, which    *)
(* must itself build against the macro crate.                              *)

\* the attribute macros the macro crate defines (#[proc_macro_attribute])
MacroExports == {"instrument"}

\* the names result_labels::* brings into __private
ResultLabelsExports == {"GetLabels", "GetLabelsFromResult"}

\* a facade crate: the macro its root re-exports from the macro crate and the
\* names its __private module exports
Facade(reexport, private) == [reexport |-> reexport, private |-> private]

\* the facade crate of this repository (src/lib.rs)
SrcPrivate == ResultLabelsExports \cup {"str_replace"}
SrcFacade == Facade("autometrics", SrcPrivate)

\* the facade of this repository, and the facades that differ from it in
\* re-exporting `instrument` or in exporting formatcp as well
Facades ==
    { Facade(m, p) : m \in {"autometrics", "instrument"},
                     p \in {SrcPrivate, SrcPrivate \cup {"formatcp"}} }

\* `pub use autometrics_macros::<reexport>` resolves
FacadeBuilds(fac) == fac.reexport \in MacroExports

\* use ::metrics_attributes::__private::{..}: the crate exists and its
\* __private module exports every imported name
Resolves(tok, fac) ==
    FacadeBuilds(fac) /\ \A i \in 1..Len(tok.a) : tok.a[i] \in fac.private

UsesResolve(body, fac) ==
    \A i \in 1..Len(body) : body[i].t = "use" => Resolves(body[i], fac)

RECURSIVE Split(_, _)
Split(toks, cur) ==
    IF toks = <<>> THEN <<cur>>
    ELSE IF Head(toks) = Semi THEN <<cur>> \o Split(Tail(toks), <<>>)
    ELSE Split(Tail(toks), Append(cur, Head(toks)))

IsBrace(tok) == tok.t \in {"{", "}"}
IsExpr(tok) ==
    tok.t \in {"now", "block", "lit", "get_labels", "elapsed", "str_replace!",
               "formatcp!", "var"}
IsMacroCall(tok) == tok.t \in {"histogram!", "increment_counter!"}

Pieces(body) == Split(SelectSeq(body, LAMBDA tok : ~IsBrace(tok)), <<>>)

WellFormedStmt(piece) ==
    \/ Len(piece) = 2 /\ piece[1].t \in {"let", "const"} /\ IsExpr(piece[2])
    \/ Len(piece) = 3 /\ piece[1].t = "let" /\ IsExpr(piece[2]) /\ piece[3].t = ".await"
    \/ Len(piece) = 1 /\ (piece[1].t = "use" \/ IsMacroCall(piece[1]))

WellFormedBody(body) ==
    LET ps == Pieces(body)
    IN  /\ \A i \in 1..(Len(ps) - 1) : WellFormedStmt(ps[i])
        /\ Len(ps[Len(ps)]) = 1 /\ ps[Len(ps)][1].t = "var"

\* the output type of awaiting a value of type ty; none when ty is no future.
\* Job is a future that completes with a Job.
AwaitOutput(ty) == IF ty = "Job" THEN <<"Job">> ELSE <<>>

\* `let ret = <block>.await; ...; ret` in a function declared to return sig.ret
WellTyped(decl) ==
    \A i \in 1..Len(decl.body) :
        decl.body[i].t = ".await" => AwaitOutput(decl.sig.ret) = <<decl.sig.ret>>

Stmt(kind, target, e, aw) == [kind |-> kind, target |-> target, e |-> e, await |-> aw]

\* const BASE_NAME: &str = str_replace!(module_path!(), "::", "_")
BASE_NAME(it) == Flatten(str_replace(module_path(it), "::", "_"))

FoldConst(tok, it) ==
    IF tok.t = "formatcp!" THEN T("lit", <<format(tok.a[1], BASE_NAME(it))>>) ELSE tok

Lower(piece, it) ==
    IF piece[1].t = "let"
    THEN Stmt("let", piece[1].a[1], FoldConst(piece[2], it), Len(piece) = 3)
    ELSE IF piece[1].t = "var" THEN Stmt("tail", "", piece[1], FALSE)
    ELSE Stmt("expr", "", piece[1], FALSE)

\* the statements a call executes, in order
Statements(decl, it) ==
    LET run == SelectSeq(Pieces(decl.body),
                         LAMBDA piece : piece[1].t \notin {"use", "const"})
    IN  [i \in 1..Len(run) |-> Lower(run[i], it)]

Accepts(out, fac) ==
    /\ out.kind = "decl"
    /\ WellFormedBody(out.decl[1].body)
    /\ UsesResolve(out.decl[1].body, fac)
    /\ WellTyped(out.decl[1])

-----------------------------------------------------------------------------
(* Values and the original bodies *)

Val(ty, variant, n) == [ty |-> ty, variant |-> variant, n |-> n]
Ok(n) == Val("Result", "ok", n)
Err(n) == Val("Result", "err", n)
Job(n) == Val("Job", "", n)

Inputs == (0 - MaxInput)..MaxInput
Abs(n) == IF n < 0 THEN 0 - n ELSE n

\* what evaluating the block does: it yields a value, or it executes a
\* `return` statement, which leaves the function the block stands in
Yield(v) == [how |-> "value", val |-> v]
Return(v) == [how |-> "return", val |-> v]

EvalBlock(block, x) ==
    CASE block = "add" -> Yield(Val("i32", "", x + 1))
      [] block = "check_positive" -> IF x >= 0 THEN Yield(Ok(0)) ELSE Yield(Err(0))
      [] block = "check_early" -> IF x < 0 THEN Return(Err(x)) ELSE Yield(Ok(x))
      [] block = "make_job" -> Yield(Job(Abs(x)))

\* the value the original, uninstrumented function gives its caller
Original(it, x) == EvalBlock(it.block, x).val

\* the suspension points inside the body of an async function
BodyAwaits(it) == IF it.sig.asyncness THEN 1 ELSE 0

\* awaiting a Job: it is pending v.n times, then completes with the finished Job
Polls(v) == v.n
AwaitValue(v) == Job(0)

\* the label capabilities (result_labels): Result values say ok or err,
\* every other type has no labels
GetLabels(ty, v) ==
    IF ty = "Result"
    THEN << <<"result", IF v.variant = "ok" THEN "ok" ELSE "err">> >>
    ELSE <<>>

-----------------------------------------------------------------------------
(* State *)

Calls == 1..MaxCalls

EnvVars == {"__metrics_attributes_start", "ret", "labels", "duration",
            "histogram_name", "counter_name"}

IdleCall ==
    [st |-> "idle", pc |-> 0, x |-> 0,
     env |-> [v \in EnvVars |-> <<>>],
     left |-> 0, val |-> <<>>, result |-> <<>>,
     \* history, for stating properties only
     log |-> <<>>, startAt |-> <<>>, bodyAt |-> <<>>, durAt |-> <<>>, extra |-> 0]

\* the functions and argument lists whose wrappers are called at run time
RunItems ==
    { it \in Items : it.attrs = <<>> /\ it.vis = "pub" /\ it.path = <<"app", "svc">> }
RunArgs == { <<>>, NameArg(<<"req_latency">>) }

Start(argLists, items) ==
    /\ args \in argLists
    /\ item \in items
    /\ facade \in Facades
    /\ phase = "source"
    /\ output = [kind |-> "none", msg |-> "", decl |-> <<>>]
    /\ program = <<>>
    /\ calls = [c \in Calls |-> IdleCall]
    /\ clock = 0
    /\ sink = <<>>

Init == Start(RunArgs, RunItems)

\* every argument list and every function, for the build-time properties
InitBuild == Start(ArgLists, Items)

-----------------------------------------------------------------------------
(* Build time *)

\* the attribute macro runs on the annotated function
Instrument ==
    /\ phase = "source"
    /\ output' = instrument(args, item)
    /\ phase' = "expanded"
    /\ UNCHANGED <<args, item, facade, program, calls, clock, sink>>

\* the compiler reads the macro's output
Compile ==
    /\ phase = "expanded"
    /\ IF Accepts(output, facade)
       THEN phase' = "ready" /\ program' = Statements(output.decl[1], item)
       ELSE phase' = "rejected" /\ program' = <<>>
    /\ UNCHANGED <<args, item, facade, output, calls, clock, sink>>

-----------------------------------------------------------------------------
(* Run time: one invocation of the wrapper executes program[1], program[2], *)
(* ... and other invocations and the clock move between its steps.         *)

Cur(c) == program[calls[c].pc]
Running(c) == phase = "ready" /\ calls[c].st = "run"
Logged(k, step) == Append(k.log, step)

Bind(k, target, v, step) ==
    [k EXCEPT !.env[target] = <<v>>, !.pc = @ + 1, !.st = "run",
              !.log = Logged(k, step)]

\* a caller invokes the wrapper with input x
Call(c, x) ==
    /\ phase = "ready"
    /\ calls[c].st = "idle"
    /\ \A d \in Calls : d < c => calls[d].st # "idle"
    /\ calls' = [calls EXCEPT ![c] = [@ EXCEPT !.st = "run", !.pc = 1, !.x = x]]
    /\ UNCHANGED <<args, item, facade, phase, output, program, clock, sink>>

\* variant: the start timestamp lives in one slot shared by all invocations
ExecNowShared(c) ==
    /\ Running(c)
    /\ Cur(c).e.t = "now"
    /\ calls' = [d \in Calls |->
                    IF d = c
                    THEN [Bind(calls[c], Cur(c).target, clock, "start")
                             EXCEPT !.startAt = <<clock>>]
                    ELSE [calls[d] EXCEPT !.env[Cur(c).target] = <<clock>>]]
    /\ UNCHANGED <<args, item, facade, phase, output, program, clock, sink>>

\* let __metrics_attributes_start = ::std::time::Instant::now();
ExecNow(c) ==
    /\ Running(c)
    /\ Cur(c).e.t = "now"
    /\ calls' = [calls EXCEPT ![c] =
                    [Bind(@, Cur(c).target, clock, "start") EXCEPT !.startAt = <<clock>>]]
    /\ UNCHANGED <<args, item, facade, phase, output, program, clock, sink>>

\* the block has run to its end: its `return` leaves the wrapper at once,
\* its value is bound (direct) or becomes the operand of `.await`
AfterBlock(k, stmt) ==
    LET out == EvalBlock(stmt.e.a[1], k.x)
    IN  IF out.how = "return"
        THEN [k EXCEPT !.st = "returned", !.result = <<out.val>>,
                       !.log = k.log \o <<"body", "return">>, !.bodyAt = <<clock>>]
        ELSE IF stmt.await
             THEN [k EXCEPT !.st = "await", !.val = <<out.val>>,
                            !.left = Polls(out.val),
                            !.log = Logged(k, "body"), !.bodyAt = <<clock>>]
             ELSE [Bind(k, stmt.target, out.val, "body") EXCEPT !.bodyAt = <<clock>>]

\* let ret = #block;   in a function that is not async
ExecBlock(c) ==
    /\ Running(c)
    /\ Cur(c).e.t = "block"
    /\ ~item.sig.asyncness
    /\ calls' = [calls EXCEPT ![c] = AfterBlock(@, Cur(c))]
    /\ UNCHANGED <<args, item, facade, phase, output, program, clock, sink>>

\* let ret = #block .await;   in an async function: the block is entered
EnterBlock(c) ==
    /\ Running(c)
    /\ Cur(c).e.t = "block"
    /\ item.sig.asyncness
    /\ calls' = [calls EXCEPT ![c] = [@ EXCEPT !.st = "block", !.left = BodyAwaits(item)]]
    /\ UNCHANGED <<args, item, facade, phase, output, program, clock, sink>>

\* the body reaches one of its own suspension points
BodySuspend(c) ==
    /\ phase = "ready"
    /\ calls[c].st = "block"
    /\ calls[c].left > 0
    /\ calls' = [calls EXCEPT ![c] = [@ EXCEPT !.st = "blockS", !.left = @ - 1]]
    /\ UNCHANGED <<args, item, facade, phase, output, program, clock, sink>>

\* the runtime resumes a suspended call
Resume(c) ==
    /\ phase = "ready"
    /\ calls[c].st \in {"blockS", "awaitS"}
    /\ calls' = [calls EXCEPT ![c] =
                    [@ EXCEPT !.st = IF @ = "blockS" THEN "block" ELSE "await"]]
    /\ UNCHANGED <<args, item, facade, phase, output, program, clock, sink>>

\* the caller drops the suspended call (cancellation)
Drop(c) ==
    /\ phase = "ready"
    /\ calls[c].st \in {"blockS", "awaitS"}
    /\ calls' = [calls EXCEPT ![c] = [@ EXCEPT !.st = "dropped"]]
    /\ UNCHANGED <<args, item, facade, phase, output, program, clock, sink>>

\* the body of an async function has run to its end
BlockDone(c) ==
    /\ phase = "ready"
    /\ calls[c].st = "block"
    /\ calls[c].left = 0
    /\ calls' = [calls EXCEPT ![c] = AfterBlock(@, Cur(c))]
    /\ UNCHANGED <<args, item, facade, phase, output, program, clock, sink>>

\* `.await` polls the block's value and finds it pending
AwaitSuspend(c) ==
    /\ phase = "ready"
    /\ calls[c].st = "await"
    /\ calls[c].left > 0
    /\ calls' = [calls EXCEPT ![c] =
                    [@ EXCEPT !.st = "awaitS", !.left = @ - 1, !.extra = @ + 1]]
    /\ UNCHANGED <<args, item, facade, phase, output, program, clock, sink>>

\* `.await` polls the block's value and finds it complete: ret is its output
AwaitDone(c) ==
    /\ phase = "ready"
    /\ calls[c].st = "await"
    /\ calls[c].left = 0
    /\ calls' = [calls EXCEPT ![c] =
                    Bind(@, Cur(c).target, AwaitValue(calls[c].val[1]), "await")]
    /\ UNCHANGED <<args, item, facade, phase, output, program, clock, sink>>

\* variant: the call resolves to the default capability for every type
ExecGetLabelsDefault(c) ==
    /\ Running(c)
    /\ Cur(c).e.t = "get_labels"
    /\ calls' = [calls EXCEPT ![c] =
                    Bind(@, Cur(c).target,
                         GetLabels("any", calls[c].env[Cur(c).e.a[1]][1]),
                         "labels")]
    /\ UNCHANGED <<args, item, facade, phase, output, program, clock, sink>>

\* let labels = ret.__metrics_attributes_get_labels();
ExecGetLabels(c) ==
    /\ Running(c)
    /\ Cur(c).e.t = "get_labels"
    /\ calls' = [calls EXCEPT ![c] =
                    Bind(@, Cur(c).target,
                         GetLabels(item.sig.ret, calls[c].env[Cur(c).e.a[1]][1]),
                         "labels")]
    /\ UNCHANGED <<args, item, facade, phase, output, program, clock, sink>>

\* let duration = __metrics_attributes_start.elapsed().as_secs_f64();
ExecElapsed(c) ==
    /\ Running(c)
    /\ Cur(c).e.t = "elapsed"
    /\ calls' = [calls EXCEPT ![c] =
                    [Bind(@, Cur(c).target, clock - calls[c].env[Cur(c).e.a[1]][1],
                          "duration") EXCEPT !.durAt = <<clock>>]]
    /\ UNCHANGED <<args, item, facade, phase, output, program, clock, sink>>

\* let histogram_name = "..."; let counter_name = "...";
ExecLit(c) ==
    /\ Running(c)
    /\ Cur(c).e.t = "lit"
    /\ calls' = [calls EXCEPT ![c] = Bind(@, Cur(c).target, Cur(c).e.a[1], Cur(c).target)]
    /\ UNCHANGED <<args, item, facade, phase, output, program, clock, sink>>

Emission(kind, name, value, labels, c) ==
    [kind |-> kind, name |-> name, value |-> value, labels |-> labels, call |-> c]

\* metrics::histogram!(histogram_name, duration, labels);
ExecHistogram(c) ==
    /\ Running(c)
    /\ Cur(c).e.t = "histogram!"
    /\ LET env == calls[c].env
           a == Cur(c).e.a
       IN  sink' = Append(sink, Emission("histogram", env[a[1]][1], env[a[2]][1],
                                         env[a[3]][1], c))
    /\ calls' = [calls EXCEPT ![c] =
                    [@ EXCEPT !.pc = @ + 1, !.log = Logged(calls[c], "histogram")]]
    /\ UNCHANGED <<args, item, facade, phase, output, program, clock>>

\* metrics::increment_counter!(counter_name, labels);
ExecCounter(c) ==
    /\ Running(c)
    /\ Cur(c).e.t = "increment_counter!"
    /\ LET env == calls[c].env
           a == Cur(c).e.a
       IN  sink' = Append(sink, Emission("counter", env[a[1]][1], 1, env[a[2]][1], c))
    /\ calls' = [calls EXCEPT ![c] =
                    [@ EXCEPT !.pc = @ + 1, !.log = Logged(calls[c], "counter")]]
    /\ UNCHANGED <<args, item, facade, phase, output, program, clock>>

\* the tail expression `ret`: the wrapper returns
ExecTail(c) ==
    /\ Running(c)
    /\ Cur(c).kind = "tail"
    /\ calls' = [calls EXCEPT ![c] =
                    [@ EXCEPT !.st = "returned", !.result = calls[c].env[Cur(c).e.a[1]],
                              !.log = Logged(calls[c], "return")]]
    /\ UNCHANGED <<args, item, facade, phase, output, program, clock, sink>>

\* time passes
Tick ==
    /\ phase = "ready"
    /\ clock < MaxClock
    /\ clock' = clock + 1
    /\ UNCHANGED <<args, item, facade, phase, output, program, calls, sink>>

Next ==
    \/ Instrument
    \/ Compile
    \/ \E c \in Calls, x \in Inputs : Call(c, x)
    \/ \E c \in Calls : ExecNow(c)
    \/ \E c \in Calls : ExecBlock(c)
    \/ \E c \in Calls : EnterBlock(c)
    \/ \E c \in Calls : BodySuspend(c)
    \/ \E c \in Calls : Resume(c)
    \/ \E c \in Calls : Drop(c)
    \/ \E c \in Calls : BlockDone(c)
    \/ \E c \in Calls : AwaitSuspend(c)
    \/ \E c \in Calls : AwaitDone(c)
    \/ \E c \in Calls : ExecGetLabels(c)
    \/ \E c \in Calls : ExecElapsed(c)
    \/ \E c \in Calls : ExecLit(c)
    \/ \E c \in Calls : ExecHistogram(c)
    \/ \E c \in Calls : ExecCounter(c)
    \/ \E c \in Calls : ExecTail(c)
    \/ Tick

Spec == Init /\ [][Next]_vars

NextBuild == Instrument \/ Compile

SpecBuild == InitBuild /\ [][NextBuild]_vars

-----------------------------------------------------------------------------
(* Properties *)

Returned(c) == calls[c].st = "returned"
Emitted(c, kind) == { i \in 1..Len(sink) : sink[i].call = c /\ sink[i].kind = kind }
EnvOf(c, v) == calls[c].env[v]

LabelOk == << <<"result", "ok">> >>
LabelErr == << <<"result", "err">> >>

\* C1: a call of the wrapper that returns hands its caller the value the
\* original body produces for the same input.
C1_ReturnsBodyValue ==
    \A c \in Calls :
        Returned(c) => calls[c].result = <<Original(item, calls[c].x)>>

\* C2: a call that has returned has emitted exactly one histogram observation
\* and exactly one counter increment, with the same labels, whichever way the
\* body yielded its outcome.
C2_EveryReturnEmits ==
    \A c \in Calls :
        Returned(c) =>
            /\ Cardinality(Emitted(c, "histogram")) = 1
            /\ Cardinality(Emitted(c, "counter")) = 1
            /\ \A i \in Emitted(c, "histogram"), j \in Emitted(c, "counter") :
                   sink[i].labels = sink[j].labels

\* the literal the accepted wrapper binds to `target`
ProgramLit(target) ==
    LET i == CHOOSE j \in 1..Len(program) : program[j].target = target
    IN  program[i].e.a[1]

RECURSIVE JoinWith(_, _)
JoinWith(segments, sep) ==
    IF segments = <<>> THEN ""
    ELSE IF Len(segments) = 1 THEN segments[1]
    ELSE segments[1] \o sep \o JoinWith(Tail(segments), sep)

\* enclosing scopes followed by the function's own name
DeclarationPath(it) == it.path \o <<it.sig.name>>

\* C3: with no name argument the base name is the function's full declaration
\* path (enclosing scopes, then the function's own name) joined by
\* underscores, and the names are base_total and base_duration_seconds.
C3_NamesFromDeclarationPath ==
    (phase = "ready" /\ args = <<>>) =>
        /\ ProgramLit("counter_name") = JoinWith(DeclarationPath(item), "_") \o "_total"
        /\ ProgramLit("histogram_name")
               = JoinWith(DeclarationPath(item), "_") \o "_duration_seconds"

\* C4: with the single argument name = B the transformation yields a usable
\* wrapper whose names are B_total and B_duration_seconds, whatever the
\* function's declaration path (stated for functions that are not async,
\* built against a facade that provides every name the wrapper imports).
C4_NamedArgumentNames ==
    \A v \in LitValues :
        (/\ args = NameArg(v)
         /\ ~item.sig.asyncness
         /\ FacadeBuilds(facade) /\ "formatcp" \in facade.private
         /\ phase \in {"ready", "rejected"}) =>
            /\ phase = "ready"
            /\ ProgramLit("counter_name") = Flatten(v) \o "_total"
            /\ ProgramLit("histogram_name") = Flatten(v) \o "_duration_seconds"

\* the labels for call c by the declared return type and the variant of the
\* value the body produces for c's input
ExpectedLabels(c) ==
    IF RetType(item.block) = "Result"
    THEN IF Original(item, calls[c].x).variant = "ok" THEN LabelOk ELSE LabelErr
    ELSE <<>>

\* C5: every emission carries result=ok when the outcome-shaped return value
\* is the success variant, result=err when it is the failure variant, and no
\* label when the return type is not outcome-shaped.
C5_LabelsFromVariant ==
    \A i \in 1..Len(sink) : sink[i].labels = ExpectedLabels(sink[i].call)

C5_Witness ==
    /\ \E i \in 1..Len(sink) : sink[i].labels = LabelOk
    /\ \E i \in 1..Len(sink) : sink[i].labels = LabelErr /\ sink[i].kind = "counter"

IsNameArg(a) == Len(a) = 3 /\ a[1] = KwName /\ a[2] = Eq /\ a[3].t = "lit"
First3(a) == SubSeq(a, 1, IF Len(a) < 3 THEN Len(a) ELSE 3)
KeyedList(a) ==
    /\ Len(a) % 3 = 0
    /\ \A i \in 1..Len(a) :
          CASE i % 3 = 1 -> a[i] \in {KwName, OtherIdent}
            [] i % 3 = 2 -> a[i] = Eq
            [] OTHER -> a[i].t = "lit"
NameCount(a) == Cardinality({ i \in 1..Len(a) : a[i] = KwName })

\* C6 as stated: a list of keyed arguments with more than one `name` fails
\* with the duplicate-argument error and a list with another keyed argument
\* fails with the unrecognized-argument error, wherever the argument stands.
C6_ErrorByContent ==
    (phase # "source" /\ KeyedList(args)) =>
        /\ NameCount(args) > 1 =>
              output.kind = "compile_error" /\ output.msg = DuplicateArgument
        /\ (\E i \in 1..Len(args) : args[i] = OtherIdent) =>
              output.kind = "compile_error" /\ output.msg = UnrecognizedArgument

\* C6 (amended): parsing succeeds exactly for the empty list and for one
\* name = <string literal>; otherwise the first offending token, reading left
\* to right, decides the error: `name` right after a complete name argument
\* is the duplicate-argument error, any other token where an argument should
\* start is the unrecognized-argument error, a `name` not followed by
\* = <string literal> is a syntax error; a failure leaves no declaration and
\* no wrapper.
C6_FirstOffenceDecides ==
    phase # "source" =>
        /\ output.kind = "decl" <=> (args = <<>> \/ IsNameArg(args))
        /\ output.kind = "compile_error" =>
              /\ output.decl = <<>> /\ phase # "ready" /\ program = <<>>
              /\ output.msg = DuplicateArgument <=>
                    (Len(args) > 3 /\ IsNameArg(First3(args)) /\ args[4] = KwName)
              /\ output.msg = UnrecognizedArgument <=>
                    \/ args[1] # KwName
                    \/ Len(args) > 3 /\ IsNameArg(First3(args)) /\ args[4] # KwName
              /\ output.msg = SyntaxError <=>
                    (args[1] = KwName /\ ~IsNameArg(First3(args)))

C6_Witness ==
    /\ phase = "rejected"
    /\ KeyedList(args)
    /\ output.msg = DuplicateArgument
    /\ \E i \in 1..Len(args) : args[i] = OtherIdent

\* C7: for an async function the wrapper drives the original body to
\* completion (ret is the body's value), suspends nowhere but at the body's
\* own suspension points, and records the clock at the body's completion
\* minus the clock at entry.
C7_DurationAtBodyCompletion ==
    \A c \in Calls :
        item.sig.asyncness =>
            /\ calls[c].extra = 0
            /\ EnvOf(c, "ret") # <<>> => EnvOf(c, "ret")[1] = Original(item, calls[c].x)
            /\ EnvOf(c, "duration") # <<>> =>
                  EnvOf(c, "duration")[1] = calls[c].bodyAt[1] - calls[c].startAt[1]

\* C8: for every function declaration and every valid configuration the
\* replacement declaration has the visibility, name, parameters, asyncness
\* and return type of the input declaration, and differs from it in the body
\* only: everything else written on the declaration, its attributes
\* included, is carried over.
C8_SignaturePreserved ==
    output.kind = "decl" =>
        LET d == output.decl[1]
        IN  /\ d.vis = item.vis
            /\ d.sig.name = item.sig.name
            /\ d.sig.params = item.sig.params
            /\ d.sig.asyncness = item.sig.asyncness
            /\ d.sig.ret = item.sig.ret
            /\ d.attrs = item.attrs

MainStepNames == {"start", "body", "labels", "duration", "histogram", "counter", "return"}
MainSteps(c) == SelectSeq(calls[c].log, LAMBDA step : step \in MainStepNames)
AnyEmitted(c) == \E i \in 1..Len(sink) : sink[i].call = c

SpecOrder == <<"start", "body", "duration", "labels", "histogram", "counter", "return">>
CodeOrder == <<"start", "body", "labels", "duration", "histogram", "counter", "return">>

Position(step, order) == CHOOSE i \in 1..Len(order) : order[i] = step
\* the steps taken are distinct and follow one another as in `order`
InOrder(steps, order) ==
    \A i, j \in 1..Len(steps) :
        i < j => Position(steps[i], order) < Position(steps[j], order)

\* C9 as stated: the steps of a call happen in the order start, body,
\* duration, labels, histogram, counter, return, the duration being fixed
\* when the body's value becomes available, before the labels are extracted;
\* nothing is emitted before the body's value is available.
C9_DurationBeforeLabels ==
    \A c \in Calls :
        /\ InOrder(MainSteps(c), SpecOrder)
        /\ EnvOf(c, "labels") # <<>> => EnvOf(c, "duration") # <<>>
        /\ EnvOf(c, "duration") # <<>> =>
              EnvOf(c, "duration")[1] = calls[c].bodyAt[1] - calls[c].startAt[1]
        /\ AnyEmitted(c) => calls[c].bodyAt # <<>>

\* C9 (amended): the steps of a call happen in the order start, body, labels,
\* duration, histogram, counter, return, the duration being fixed when the
\* clock is read after label extraction, hence no earlier than the moment
\* the body's value becomes available; nothing is emitted before the body's
\* value is available, so a call dropped while suspended emits nothing.
C9_LabelsBeforeDuration ==
    \A c \in Calls :
        /\ InOrder(MainSteps(c), CodeOrder)
        /\ EnvOf(c, "duration") # <<>> =>
              /\ EnvOf(c, "labels") # <<>>
              /\ EnvOf(c, "duration")[1] >= calls[c].bodyAt[1] - calls[c].startAt[1]
        /\ AnyEmitted(c) => EnvOf(c, "ret") # <<>> /\ calls[c].bodyAt # <<>>
        /\ calls[c].st \in {"block", "blockS", "await", "awaitS", "dropped"} => ~AnyEmitted(c)

C9_Witness ==
    \E c \in Calls :
        /\ Returned(c)
        /\ MainSteps(c) = CodeOrder
        /\ EnvOf(c, "duration")[1] > calls[c].bodyAt[1] - calls[c].startAt[1]

\* C10: under any interleaving each invocation's emitted duration comes from
\* its own start timestamp and its labels from its own returned value; no
\* invocation touches another's locals, and an invocation not yet made holds
\* nothing from earlier ones.
C10_CallLocal ==
    /\ \A i \in 1..Len(sink) :
          LET c == sink[i].call
          IN  /\ sink[i].kind = "histogram" =>
                    sink[i].value = calls[c].durAt[1] - calls[c].startAt[1]
              /\ sink[i].labels = GetLabels(item.sig.ret, EnvOf(c, "ret")[1])
    /\ \A c \in Calls :
          /\ EnvOf(c, "__metrics_attributes_start") = calls[c].startAt
          /\ calls[c].st = "idle" => calls[c] = IdleCall

C10_Witness ==
    /\ calls[1].st = "run" /\ calls[2].st = "run"
    /\ calls[1].startAt # <<>> /\ calls[2].startAt # <<>>
    /\ calls[1].startAt # calls[2].startAt
    /\ Emitted(1, "histogram") = {}
    /\ Emitted(2, "histogram") # {}
    /\ EnvOf(1, "labels") # <<>>
    /\ EnvOf(1, "labels") # EnvOf(2, "labels")

====
